---- MODULE Spec2Model ----
(***************************************************************************)
(* Model of tobler.harmonize.harmonize (src/tobler/harmonize.py).          *)
(*                                                                         *)
(* One call of harmonize is one behaviour: Init fixes the arguments of the *)
(* call, the actions are the consecutive blocks of the function body, and  *)
(* pc is the position of the call in that body.  A raised exception ends   *)
(* the call in pc = "failed" with err naming it; a return ends it in       *)
(* pc = "done" with harmonized_df holding the returned table.              *)
(*                                                                         *)
(* Tables are sequences of rows.  A row keeps its pandas index label       *)
(* (idx), its period, geometry and identifier, and whether its attribute   *)
(* values are the raw input values or values produced by an interpolation  *)
(* primitive.  The numeric attribute values themselves are produced by the *)
(* external primitives and are represented by the shape of the arrays.     *)
(***************************************************************************)
EXTENDS Integers, Sequences, FiniteSets, TLC

\* Bounds of the explored inputs: the number of collections in raw_community
\* and the total number of rows in them.
MaxColl == 2
MaxRows == 3

NoCRS == "None"
\* A missing value.
NaN == <<>>

\* The first collection's CRS is NoCRS or "EPSG:4326"; a first collection in
\* "EPSG:3857" is the same case with the two names exchanged.
FirstCRSValues == {NoCRS, "EPSG:4326"}
CRSValues == {NoCRS, "EPSG:4326", "EPSG:3857"}
\* The period values of the input rows.  Period values are only compared for
\* equality, so the inputs name them in the order of their first appearance
\* in the concatenated input: 2000, then 2010, then 2020.  target_year is any
\* of them, or a value no row has.
PeriodSeq == <<2000, 2010, 2020>>
Periods == {PeriodSeq[k] : k \in 1..Len(PeriodSeq)}
TargetYears == Periods \cup {2030}
Methods == {"area", "land_type_area", "land_type_Poisson_regression",
            "land_type_Gaussian_regression"}
\* A variable-list argument is None (the default of both keyword arguments)
\* or a list of column names.
None == [none |-> TRUE, items |-> <<>>]
List(names) == [none |-> FALSE, items |-> names]

ExtensiveChoices == {None, List(<<>>), List(<<"pop">>), List(<<"pop", "inc">>)}
IntensiveChoices == {None, List(<<>>), List(<<"den">>)}

\* Default values of the keyword arguments index and time_col.
index == "geoid"
time_col == "year"

VARIABLES raw_community, target_year, weights_method, extensive_variables,
          intensive_variables, pc, err, crs, dfs, times, target_df,
          interpolated_dfs, it, interpolation, harmonized_df, calls, writes

vars == <<raw_community, target_year, weights_method, extensive_variables,
          intensive_variables, pc, err, crs, dfs, times, target_df,
          interpolated_dfs, it, interpolation, harmonized_df, calls, writes>>

args == <<raw_community, target_year, weights_method, extensive_variables,
          intensive_variables>>

----------------------------------------------------------------------------
(* Input collections *)

\* The c-th GeoDataFrame of the list: one polygon per entry of years, with
\* the default 0-based index, each polygon with its own geometry and
\* identifier.
GeoDataFrame(c, gcrs, years) ==
    [crs  |-> gcrs,
     rows |-> [j \in 1..Len(years) |-> [idx      |-> j - 1,
                                        year     |-> years[j],
                                        geometry |-> <<"polygon", c, j>>,
                                        geoid    |-> <<"id", c, j>>,
                                        data     |-> "raw"]]]

\* The number of rows of the first c collections, given their sizes.
RECURSIVE SumTo(_, _)
SumTo(sizes, c) == IF c = 0 THEN 0 ELSE SumTo(sizes, c - 1) + sizes[c]

\* The sizes of m collections with at most MaxRows rows in all.
Sizes(m) == { sizes \in [1..m -> 0..MaxRows] : SumTo(sizes, m) <= MaxRows }

\* The CRS of m collections.
CRSVectors(m) == { cv \in [1..m -> CRSValues] : m > 0 => cv[1] \in FirstCRSValues }

\* The periods of n rows, named in the order of their first appearance.
YearSeqs(n) ==
    { ys \in [1..n -> Periods] :
        \A k \in 1..n : \A i \in 1..Len(PeriodSeq) :
            ys[k] = PeriodSeq[i] =>
                \A h \in 1..(i - 1) : \E j \in 1..(k - 1) : ys[j] = PeriodSeq[h] }

RawCommunities ==
    UNION { UNION { UNION {
        { [c \in 1..m |->
             GeoDataFrame(c, cv[c],
                          SubSeq(ys, SumTo(sizes, c - 1) + 1, SumTo(sizes, c)))] :
          ys \in YearSeqs(SumTo(sizes, m)) } :
        cv \in CRSVectors(m) } :
        sizes \in Sizes(m) } :
        m \in 0..MaxColl }

----------------------------------------------------------------------------
(* Helpers: the pandas / Python operations the function body uses *)

\* The outcome of the condition of line 113,
\*   len(extensive_variables) == 0 and len(intensive_variables) == 0
\* evaluated left to right with short-circuit: len(None) raises TypeError,
\* a true condition leads to the raise of line 114, a false one passes.
VariableCheck_IsNone(ext, int) ==
    IF ext.none /\ int.none THEN "UsageError" ELSE "ok"
VariableCheck(ext, int) ==
    IF ext.none THEN "TypeError"
    ELSE IF Len(ext.items) # 0 THEN "ok"
    ELSE IF int.none THEN "TypeError"
    ELSE IF Len(int.items) = 0 THEN "UsageError"
    ELSE "ok"

\* tobler.util.util._check_presence_of_crs: passes iff the CRS is defined.
check_presence_of_crs(gdf) == gdf.crs # NoCRS

\* all(i.crs == raw_community[0].crs for i in raw_community)
SameCRS_Any(rc) == Len(rc) = 0 \/ \E k \in 1..Len(rc) : rc[k].crs = rc[1].crs
SameCRS(rc) == \A k \in 1..Len(rc) : rc[k].crs = rc[1].crs

\* pd.concat(raw_community): the rows of the collections, one after another,
\* each keeping its index label.
RECURSIVE Concat(_)
Concat(rc) ==
    IF Len(rc) = 0 THEN <<>>
    ELSE Concat(SubSeq(rc, 1, Len(rc) - 1)) \o rc[Len(rc)].rows

\* Series.unique(): the distinct values in order of first appearance.
RECURSIVE Unique(_)
Unique_NoDedup(s) == s
Unique(s) ==
    IF Len(s) = 0 THEN <<>>
    ELSE LET u == Unique(SubSeq(s, 1, Len(s) - 1))
             x == s[Len(s)]
         IN  IF \E k \in 1..Len(u) : u[k] = x THEN u ELSE Append(u, x)

\* dfs[dfs[time_col] == p]: boolean-mask selection, order and labels kept.
Mask(rows, p) == SelectSeq(rows, LAMBDA r : r.year = p)

\* DataFrame.reset_index(): fresh labels 0..n-1 in row order.
ResetIndex_Keep(rows) == rows
ResetIndex(rows) == [k \in 1..Len(rows) |-> [rows[k] EXCEPT !.idx = k - 1]]

\* d[key] = value on a Python dict (insertion-ordered): an existing key keeps
\* its position and gets the new value, a new key goes to the end.
HasKey(d, key) == \E k \in 1..Len(d) : d[k].key = key
DictSet_Append(d, key, value) == Append(d, [key |-> key, value |-> value])
DictSet_MoveToEnd(d, key, value) ==
    Append(SelectSeq(d, LAMBDA e : e.key # key), [key |-> key, value |-> value])
DictSet(d, key, value) ==
    IF HasKey(d, key)
    THEN [k \in 1..Len(d) |->
            IF d[k].key = key THEN [key |-> key, value |-> value] ELSE d[k]]
    ELSE Append(d, [key |-> key, value |-> value])

\* Column headers: the label and the data it was built from.
Header(name, from) == [name |-> name, from |-> from]

Headers(names, from) == [k \in 1..Len(names) |-> Header(names[k], from)]

\* The columns of the target-period rows of the concatenated input, after
\* reset_index().
RawColumns ==
    <<Header("index", "input"), Header(index, "input"),
      Header(time_col, "input"), Header("geometry", "input")>>
    \o Headers(extensive_variables.items, "input")
    \o Headers(intensive_variables.items, "input")

\* pd.DataFrame(array, columns=names) is defined only when the array has one
\* column per name.
ShapeMatches(array, names) == array.ncols = Len(names.items)

\* The column names given to the table built from interpolation[0].
ExtensiveHeaders(ext, int) == ext

\* The column names given to the table built from interpolation[1].
IntensiveHeaders(ext, int) == ext

\* profile[col] = target_df[col]: assignment of a Series aligns on the index
\* label; a label the target frame does not have gives a missing value.
Aligned(rows, label, col) ==
    IF \E k \in 1..Len(rows) : rows[k].idx = label
    THEN rows[CHOOSE k \in 1..Len(rows) : rows[k].idx = label][col]
    ELSE NaN

\* pd.concat(list(interpolated_dfs.values()), sort=True): the rows of the
\* tables in the order of the dict.
RECURSIVE ConcatValues(_)
ConcatValues(d) ==
    IF Len(d) = 0 THEN <<>>
    ELSE ConcatValues(SubSeq(d, 1, Len(d) - 1)) \o d[Len(d)].value.rows

\* A table has two columns with the same label.
DuplicateLabels(columns) ==
    \E a, b \in 1..Len(columns) : a # b /\ columns[a].name = columns[b].name

----------------------------------------------------------------------------
(* External primitives (tobler.area_weighted) *)

\* What area_interpolate_binning / area_interpolate return on success: two
\* arrays row-aligned to the target, one column per variable of the group.
PrimitiveResult(target_rows, ext, int) ==
    [bound  |-> TRUE,
     arrays |-> <<[group |-> "extensive", nrows |-> Len(target_rows),
                   ncols |-> Len(ext.items)],
                  [group |-> "intensive", nrows |-> Len(target_rows),
                   ncols |-> Len(int.items)]>>]

\* The local name `interpolation` before any assignment to it.
Unbound == [bound |-> FALSE, arrays |-> <<>>]

\* A primitive call, as seen by the caller: which primitive, and whether its
\* target argument was target_df.copy() or target_df itself.
Call(name, target_arg) == [primitive |-> name, target |-> target_arg]

----------------------------------------------------------------------------
(* The call *)

Init ==
    /\ raw_community \in RawCommunities
    /\ target_year \in TargetYears
    /\ weights_method \in Methods
    /\ extensive_variables \in ExtensiveChoices
    /\ intensive_variables \in IntensiveChoices
    /\ pc = "variables"
    /\ err = "none"
    /\ crs = NoCRS
    /\ dfs = <<>>
    /\ times = <<>>
    /\ target_df = [rows |-> <<>>, scratch |-> FALSE]
    /\ interpolated_dfs = <<>>
    /\ it = 1
    /\ interpolation = Unbound
    /\ harmonized_df = [crs |-> NoCRS, columns |-> {}, rows |-> <<>>]
    /\ calls = <<>>
    /\ writes = [p \in Periods \cup TargetYears |-> 0]

Fail(e) ==
    /\ pc' = "failed"
    /\ err' = e

\* Lines 113-116.  "TypeError" is len() of a None argument at line 113;
\* "UsageError" is the raise of line 114 (the raised object is a str, which
\* Python 3 reports as a TypeError raised by that statement).
CheckVariables ==
    /\ pc = "variables"
    /\ LET outcome == VariableCheck(extensive_variables, intensive_variables)
       IN  IF outcome = "ok"
           THEN pc' = "crs" /\ err' = err
           ELSE Fail(outcome)
    /\ UNCHANGED <<args, crs, dfs, times, target_df, interpolated_dfs, it,
                   interpolation, harmonized_df, calls, writes>>

\* Lines 118-126.
CheckCRS ==
    /\ pc = "crs"
    /\ IF \E k \in 1..Len(raw_community) : ~check_presence_of_crs(raw_community[k])
       THEN Fail("MissingCRS")
       ELSE IF ~SameCRS(raw_community)
            THEN Fail("CRSMismatch")
            ELSE pc' = "partition" /\ err' = err
    /\ UNCHANGED <<args, crs, dfs, times, target_df, interpolated_dfs, it,
                   interpolation, harmonized_df, calls, writes>>

\* Lines 128-135.  raw_community[0] of an empty list raises IndexError.
Partition ==
    /\ pc = "partition"
    /\ IF Len(raw_community) = 0
       THEN /\ Fail("IndexError")
            /\ UNCHANGED <<crs, dfs, times, target_df, interpolated_dfs>>
       ELSE LET all_rows == Concat(raw_community)
                target   == ResetIndex(Mask(all_rows, target_year))
            IN  /\ crs' = raw_community[1].crs
                /\ dfs' = all_rows
                /\ times' = Unique([k \in 1..Len(all_rows) |-> all_rows[k].year])
                /\ target_df' = [rows |-> target, scratch |-> FALSE]
                /\ interpolated_dfs' =
                       DictSet(<<>>, target_year,
                               [kind |-> "raw", columns |-> RawColumns, rows |-> target])
                /\ pc' = "loop"
                /\ err' = err
    /\ UNCHANGED <<args, it, interpolation, harmonized_df, calls, writes>>

\* Lines 138-149: weights_method == "area".
InterpolateArea ==
    /\ pc = "loop"
    /\ it <= Len(times)
    /\ weights_method = "area"
    /\ calls' = Append(calls, Call("area_interpolate_binning", "copy"))
    /\ \E ok \in BOOLEAN :
          IF ok
          THEN /\ interpolation' = PrimitiveResult(target_df.rows, extensive_variables,
                                                   intensive_variables)
               /\ pc' = "profile"
               /\ err' = err
          ELSE /\ Fail("PrimitiveError")
               /\ UNCHANGED interpolation
    /\ UNCHANGED <<args, crs, dfs, times, target_df, interpolated_dfs, it,
                   harmonized_df, writes>>

\* Lines 151-169: weights_method == "land_type_area".  area_tables_raster
\* gets target_df.copy(), area_interpolate gets target_df itself; a primitive
\* may add scratch columns to the frame it is given.
InterpolateLandType ==
    /\ pc = "loop"
    /\ it <= Len(times)
    /\ weights_method = "land_type_area"
    /\ \E tables_ok \in BOOLEAN :
          IF ~tables_ok
          THEN /\ calls' = Append(calls, Call("area_tables_raster", "copy"))
               /\ Fail("PrimitiveError")
               /\ UNCHANGED <<interpolation, target_df>>
          ELSE /\ calls' = calls \o <<Call("area_tables_raster", "copy"),
                                      Call("area_interpolate", "target_df")>>
               /\ \E mutates \in BOOLEAN :
                     target_df' = [target_df EXCEPT !.scratch = @ \/ mutates]
               /\ \E ok \in BOOLEAN :
                     IF ok
                     THEN /\ interpolation' =
                                 PrimitiveResult(target_df.rows, extensive_variables,
                                                 intensive_variables)
                          /\ pc' = "profile"
                          /\ err' = err
                     ELSE /\ Fail("PrimitiveError")
                          /\ UNCHANGED interpolation
    /\ UNCHANGED <<args, crs, dfs, times, interpolated_dfs, it, harmonized_df, writes>>

\* Lines 140 and 151 both false: no primitive is called and `interpolation`
\* keeps whatever binding it had.
InterpolateNone ==
    /\ pc = "loop"
    /\ it <= Len(times)
    /\ weights_method \notin {"area", "land_type_area"}
    /\ pc' = "profile"
    /\ UNCHANGED <<args, err, crs, dfs, times, target_df, interpolated_dfs, it,
                   interpolation, harmonized_df, calls, writes>>

\* Lines 171-185.
BuildProfile ==
    /\ pc = "profile"
    /\ LET ext  == extensive_variables
           int  == intensive_variables
           i    == times[it]
       IN
       \* line 172: len(extensive_variables); line 173 reads interpolation[0]
       IF ext.none
       THEN /\ Fail("TypeError")
            /\ UNCHANGED <<interpolated_dfs, it, writes>>
       ELSE IF Len(ext.items) > 0 /\ ~interpolation.bound
       THEN /\ Fail("NameError")
            /\ UNCHANGED <<interpolated_dfs, it, writes>>
       ELSE IF Len(ext.items) > 0 /\ ~ShapeMatches(interpolation.arrays[1],
                                                     ExtensiveHeaders(ext, int))
       THEN /\ Fail("ShapeError")
            /\ UNCHANGED <<interpolated_dfs, it, writes>>
       \* line 176: len(intensive_variables); line 177 reads interpolation[1]
       ELSE IF int.none
       THEN /\ Fail("TypeError")
            /\ UNCHANGED <<interpolated_dfs, it, writes>>
       ELSE IF Len(int.items) > 0 /\ ~interpolation.bound
       THEN /\ Fail("NameError")
            /\ UNCHANGED <<interpolated_dfs, it, writes>>
       ELSE IF Len(int.items) > 0 /\ ~ShapeMatches(interpolation.arrays[2],
                                                     IntensiveHeaders(ext, int))
       THEN /\ Fail("ShapeError")
            /\ UNCHANGED <<interpolated_dfs, it, writes>>
       ELSE LET extcols == IF Len(ext.items) > 0
                           THEN Headers(ExtensiveHeaders(ext, int).items, "extensive")
                           ELSE <<>>
                intcols == IF Len(int.items) > 0
                           THEN Headers(IntensiveHeaders(ext, int).items, "intensive")
                           ELSE <<>>
                nrows   == interpolation.arrays[1].nrows
                rows    == [k \in 1..nrows |->
                              [idx      |-> k - 1,
                               year     |-> i,
                               geometry |-> Aligned(target_df.rows, k - 1, "geometry"),
                               geoid    |-> Aligned(target_df.rows, k - 1, "geoid"),
                               data     |-> "interpolated"]]
                profile == [kind    |-> "profile",
                            columns |-> extcols \o intcols
                                        \o <<Header("geometry", "target_df"),
                                             Header(index, "target_df"),
                                             Header(time_col, "period")>>,
                            rows    |-> rows]
            IN  /\ interpolated_dfs' = DictSet(interpolated_dfs, i, profile)
                /\ writes' = [writes EXCEPT ![i] = @ + 1]
                /\ it' = it + 1
                /\ pc' = "loop"
                /\ err' = err
    /\ UNCHANGED <<args, crs, dfs, times, target_df, interpolation,
                   harmonized_df, calls>>

\* Lines 187-191.  The union of the columns cannot be formed over duplicate
\* labels in every pandas release; the stored crs is not passed to the
\* constructor, so the CRS of the result is whatever the geometry column
\* still carries, which depends on the geopandas release.
Assemble ==
    /\ pc = "loop"
    /\ it > Len(times)
    /\ LET tables == interpolated_dfs
           dup    == \E k \in 1..Len(tables) : DuplicateLabels(tables[k].value.columns)
       IN  \E concat_ok \in {TRUE} \cup {~dup} :
             IF ~concat_ok
             THEN /\ Fail("InvalidIndexError")
                  /\ UNCHANGED harmonized_df
             ELSE /\ \E out_crs \in {NoCRS, raw_community[1].crs} :
                        harmonized_df' =
                          [crs     |-> out_crs,
                           columns |-> UNION { { tables[k].value.columns[c].name :
                                                   c \in 1..Len(tables[k].value.columns) } :
                                               k \in 1..Len(tables) },
                           rows    |-> ConcatValues(tables)]
                  /\ pc' = "done"
                  /\ err' = err
    /\ UNCHANGED <<args, crs, dfs, times, target_df, interpolated_dfs, it,
                   interpolation, calls, writes>>

Next ==
    \/ CheckVariables
    \/ CheckCRS
    \/ Partition
    \/ InterpolateArea
    \/ InterpolateLandType
    \/ InterpolateNone
    \/ BuildProfile
    \/ Assemble

Spec == Init /\ [][Next]_vars

----------------------------------------------------------------------------
(* Properties *)

Terminated == pc \in {"done", "failed"}

ValidMethod == weights_method \in {"area", "land_type_area"}

UndefinedCRS == \E k \in 1..Len(raw_community) : raw_community[k].crs = NoCRS

DifferingCRS ==
    \E k \in 1..Len(raw_community) : raw_community[k].crs # raw_community[1].crs

BadCRS == UndefinedCRS \/ DifferingCRS

\* The two variable-list arguments as passed: None or a list of names.
ExtIsList == ~extensive_variables.none
IntIsList == ~intensive_variables.none
ExtNames == extensive_variables.items
IntNames == intensive_variables.items

BothListsEmpty ==
    ExtIsList /\ IntIsList /\ Len(ExtNames) = 0 /\ Len(IntNames) = 0

\* len() of a None argument is evaluated at line 113.
NoneAtLine113 == ~ExtIsList \/ (Len(ExtNames) = 0 /\ ~IntIsList)

\* The distinct period values of the input, and the number of input rows of
\* the target period, read off the arguments.
InputYears ==
    UNION { { raw_community[c].rows[j].year : j \in 1..Len(raw_community[c].rows) } :
            c \in 1..Len(raw_community) }

TargetCount ==
    Cardinality({ cj \in (1..Len(raw_community)) \X (1..MaxRows + 1) :
                    /\ cj[2] <= Len(raw_community[cj[1]].rows)
                    /\ raw_community[cj[1]].rows[cj[2]].year = target_year })

Keys == { interpolated_dfs[k].key : k \in 1..Len(interpolated_dfs) }

Entry(p) == interpolated_dfs[CHOOSE k \in 1..Len(interpolated_dfs) :
                                interpolated_dfs[k].key = p].value

Profiles ==
    { interpolated_dfs[k].value : k \in { j \in 1..Len(interpolated_dfs) :
                                           interpolated_dfs[j].value.kind = "profile" } }

OutYears == { harmonized_df.rows[r].year : r \in 1..Len(harmonized_df.rows) }

\* Position in the concatenated input of the first row of period p.
FirstPos(p) ==
    CHOOSE k \in 1..Len(dfs) :
        dfs[k].year = p /\ \A j \in 1..(k - 1) : dfs[j].year # p

\* C1 as stated: whenever some collection has an undefined or differing CRS,
\* the call can only end in a reference-system error and no primitive is
\* ever invoked.
C1_Original ==
    BadCRS =>
        /\ pc \in {"variables", "crs", "failed"}
        /\ calls = <<>>
        /\ pc = "failed" => err \in {"MissingCRS", "CRSMismatch"}

\* C1 amended: when some collection has an undefined or differing CRS the
\* call never gets past the CRS checks and invokes no primitive.  It fails
\* with the missing-CRS error if some CRS is undefined and with the mismatch
\* error otherwise, unless it has already failed at the variable check of
\* line 113: with the TypeError of len(None) when extensive_variables is
\* None, or is empty while intensive_variables is None, and with the usage
\* error when both lists are empty.
C1_CRSErrorBeforePrimitives ==
    BadCRS =>
        /\ pc \in {"variables", "crs", "failed"}
        /\ calls = <<>>
        /\ pc = "failed" =>
              err = IF NoneAtLine113 THEN "TypeError"
                    ELSE IF BothListsEmpty THEN "UsageError"
                    ELSE IF UndefinedCRS THEN "MissingCRS"
                    ELSE "CRSMismatch"

C1_Witness ==
    /\ pc = "failed"
    /\ err = "CRSMismatch"
    /\ Len(raw_community) = 2
    /\ DifferingCRS
    /\ ExtIsList
    /\ Len(ExtNames) > 0
    /\ ~IntIsList

\* C2: when both variable lists are empty the call fails at the variable
\* check with the usage error, whatever the other arguments are; the CRS
\* checks are never reached and no primitive is invoked.
C2_UsageErrorFirst ==
    BothListsEmpty =>
        /\ pc \in {"variables", "failed"}
        /\ calls = <<>>
        /\ pc = "failed" => err = "UsageError"

C2_Witness ==
    /\ pc = "failed"
    /\ err = "UsageError"
    /\ BothListsEmpty
    /\ UndefinedCRS
    /\ ~ValidMethod

\* C3: a call that returns has one output row per (target polygon, distinct
\* input period) pair: rows = target rows x distinct periods, the target
\* period counted once.
C3_RowCount ==
    pc = "done" =>
        Len(harmonized_df.rows) = TargetCount * Cardinality(InputYears)

C3_Witness ==
    /\ pc = "done"
    /\ TargetCount = 2
    /\ Cardinality(InputYears) = 2
    /\ Len(harmonized_df.rows) = 4

\* C4 as stated: a call with a weights_method other than "area" and
\* "land_type_area" never returns a table and never fails with an
\* undefined-variable failure; it is rejected by validation.
C4_Original ==
    (~ValidMethod /\ Terminated) =>
        /\ pc = "failed"
        /\ err \in {"UnsupportedMethod", "UsageError", "MissingCRS",
                    "CRSMismatch", "IndexError"}

\* C5 as stated: the returned table carries the CRS stored from
\* raw_community[0] before the concatenation.
C5_Original == pc = "done" => harmonized_df.crs = crs

\* C6: in a returned table, the rows of every period group are, in order,
\* the rows of the target frame (re-indexed 0..n-1) as far as geometry and
\* identifier go, so a target polygon has the same geometry in every group.
C6_TargetGeometryEverywhere ==
    pc = "done" =>
        \A p \in InputYears :
            LET group == SelectSeq(harmonized_df.rows, LAMBDA r : r.year = p)
                T     == target_df.rows
            IN  /\ Len(group) = Len(T)
                /\ \A k \in 1..Len(T) :
                      /\ T[k].idx = k - 1
                      /\ group[k].geometry = T[k].geometry
                      /\ group[k].geoid = T[k].geoid

C6_Witness ==
    /\ pc = "done"
    /\ Len(target_df.rows) = 2
    /\ Cardinality(OutYears) = 2
    /\ \E r \in 1..Len(harmonized_df.rows) :
          /\ harmonized_df.rows[r].year # target_year
          /\ harmonized_df.rows[r].geometry = target_df.rows[2].geometry

\* C7: in a returned table the period groups are contiguous and ordered:
\* the target period's group first, then the other periods in the order of
\* their first appearance in the concatenated input.
C7_GroupOrder ==
    pc = "done" =>
        \A r1, r2 \in 1..Len(harmonized_df.rows) :
            r1 < r2 =>
                LET a == harmonized_df.rows[r1].year
                    b == harmonized_df.rows[r2].year
                IN  \/ a = b
                    \/ a = target_year
                    \/ (b # target_year /\ FirstPos(a) < FirstPos(b))

C7_Witness ==
    /\ pc = "done"
    /\ Cardinality(OutYears) = 3
    /\ \E a, b \in OutYears :
          /\ a # target_year
          /\ b # target_year
          /\ FirstPos(a) < FirstPos(target_year)
          /\ FirstPos(target_year) < FirstPos(b)
          /\ \E r1, r2 \in 1..Len(harmonized_df.rows) :
                /\ r1 < r2
                /\ harmonized_df.rows[r1].year = a
                /\ harmonized_df.rows[r2].year = b
    /\ harmonized_df.rows[1].year = target_year

\* C8 as stated: in a returned call the accumulation mapping has exactly one
\* entry per distinct input period and no other, each written once in the
\* loop, none of them the raw seeded table, and no raw row is returned.
C8_Original ==
    pc = "done" =>
        /\ Keys = InputYears
        /\ Len(interpolated_dfs) = Cardinality(InputYears)
        /\ \A p \in InputYears : writes[p] = 1
        /\ \A k \in 1..Len(interpolated_dfs) : interpolated_dfs[k].value.kind = "profile"
        /\ \A r \in 1..Len(harmonized_df.rows) : harmonized_df.rows[r].data = "interpolated"

\* C8 amended: in a returned call every distinct input period has exactly
\* one entry, written exactly once in the loop and holding an interpolated
\* table, and no raw row is returned.  If target_year is one of the input
\* periods there is no other entry; otherwise the mapping has one more
\* entry, the seeded one keyed by target_year, which has no rows.
C8_MappingAfterLoop ==
    pc = "done" =>
        /\ Len(interpolated_dfs) = Cardinality(Keys)
        /\ \A p \in InputYears :
              /\ p \in Keys
              /\ writes[p] = 1
              /\ Entry(p).kind = "profile"
        /\ \A p \in (Periods \cup TargetYears) \ InputYears : writes[p] = 0
        /\ \A r \in 1..Len(harmonized_df.rows) : harmonized_df.rows[r].data = "interpolated"
        /\ IF target_year \in InputYears
           THEN Keys = InputYears
           ELSE /\ Keys = InputYears \cup {target_year}
                /\ Entry(target_year).kind = "raw"
                /\ Entry(target_year).rows = <<>>

C8_Witness ==
    /\ pc = "done"
    /\ target_year \in InputYears
    /\ Cardinality(InputYears) = 2
    /\ TargetCount = 2
    /\ Len(interpolated_dfs) = 2

\* C9 as stated: every primitive call receives a copy of the target frame,
\* never the frame itself, and the target frame is never changed.
C9_Original ==
    /\ \A k \in 1..Len(calls) : calls[k].target = "copy"
    /\ target_df.scratch = FALSE

\* C10 as stated: with a non-empty intensive list, for every combination of
\* the two lists every period's table is built, its intensive part carrying
\* the extensive names and following the extensive part.
C10_Original ==
    (IntIsList /\ Len(IntNames) > 0) =>
        /\ err # "ShapeError"
        /\ \A t \in Profiles :
              LET E == ExtNames
                  n == Len(E)
              IN  /\ Len(t.columns) = 2 * n + 3
                  /\ \A j \in 1..n :
                        /\ t.columns[j] = [name |-> E[j], from |-> "extensive"]
                        /\ t.columns[n + j] = [name |-> E[j], from |-> "intensive"]

====
